---- MODULE Spec2Model ----
(***************************************************************************)
(* Model of the RetailCRM gateway (main.py): five FastAPI handlers, each   *)
(* of which builds one upstream request, sends it with the blocking httpx  *)
(* client and relays the upstream answer.                                  *)
(*                                                                         *)
(* Text (a JSON document, a date in ISO form) is a sequence of characters, *)
(* each character a one-letter string.  Python values are tagged records   *)
(* [t, v] so that None, str, int, float, date, dict and list stay apart.   *)
(***************************************************************************)
EXTENDS Integers, Sequences, FiniteSets, TLC

(***************************************************************************)
(* Python values                                                           *)
(***************************************************************************)
None == [t |-> "null", v |-> <<>>]
PyBool(b) == [t |-> "bool", v |-> <<b>>]
PyStr(s) == [t |-> "str", v |-> s]
PyInt(n) == [t |-> "int", v |-> <<n>>]
\* a float with a short decimal repr: whole part w, fraction digits f (0.99, 4.0)
PyFloat(w, f) == [t |-> "float", v |-> <<w>> \o f]
PyDate(y, m, d) == [t |-> "date", v |-> <<y, m, d>>]
\* a dict is the sequence of its <<key, value>> pairs in insertion order
PyDict(items) == [t |-> "dict", v |-> items]
PyList(elems) == [t |-> "list", v |-> elems]

\* a test for None in place of the truthiness test
Truthy_isNotNone(x) == x.t # "null"

\* Python truthiness of an optional query parameter: None and "" are falsy,
\* every date is truthy
Truthy(x) == CASE x.t = "null" -> FALSE
               [] x.t = "str" -> Len(x.v) > 0
               [] OTHER -> TRUE

(***************************************************************************)
(* The string literals of the source, as text                              *)
(***************************************************************************)
K_firstName == <<"f", "i", "r", "s", "t", "N", "a", "m", "e">>
K_lastName == <<"l", "a", "s", "t", "N", "a", "m", "e">>
K_patronymic == <<"p", "a", "t", "r", "o", "n", "y", "m", "i", "c">>
K_email == <<"e", "m", "a", "i", "l">>
K_birthday == <<"b", "i", "r", "t", "h", "d", "a", "y">>
K_sex == <<"s", "e", "x">>
K_address == <<"a", "d", "d", "r", "e", "s", "s">>
K_region == <<"r", "e", "g", "i", "o", "n">>
K_city == <<"c", "i", "t", "y">>
K_phones == <<"p", "h", "o", "n", "e", "s">>
K_number == <<"n", "u", "m", "b", "e", "r">>
K_customer == <<"c", "u", "s", "t", "o", "m", "e", "r">>
K_id == <<"i", "d">>
K_items == <<"i", "t", "e", "m", "s">>
K_productName == <<"p", "r", "o", "d", "u", "c", "t", "N", "a", "m", "e">>
K_quantity == <<"q", "u", "a", "n", "t", "i", "t", "y">>
K_initialPrice == <<"i", "n", "i", "t", "i", "a", "l", "P", "r", "i", "c", "e">>
K_order == <<"o", "r", "d", "e", "r">>
K_type == <<"t", "y", "p", "e">>
K_status == <<"s", "t", "a", "t", "u", "s">>
K_cash == <<"c", "a", "s", "h">>
K_paid == <<"p", "a", "i", "d">>
K_detail == <<"d", "e", "t", "a", "i", "l">>

(***************************************************************************)
(* str(int), date.isoformat(), json.dumps(..., ensure_ascii=False)         *)
(***************************************************************************)
DigitChar == <<"0", "1", "2", "3", "4", "5", "6", "7", "8", "9">>

RECURSIVE NatText(_)
NatText(n) == IF n < 10 THEN <<DigitChar[n + 1]>>
              ELSE NatText(n \div 10) \o <<DigitChar[(n % 10) + 1]>>

IntText(n) == IF n < 0 THEN <<"-">> \o NatText(0 - n) ELSE NatText(n)

RECURSIVE ZeroPad(_, _)
ZeroPad(s, width) == IF Len(s) >= width THEN s ELSE ZeroPad(<<"0">> \o s, width)

\* date.isoformat(): "%04d-%02d-%02d"
isoformat(d) == ZeroPad(NatText(d.v[1]), 4) \o <<"-">> \o ZeroPad(NatText(d.v[2]), 2)
                \o <<"-">> \o ZeroPad(NatText(d.v[3]), 2)

RECURSIVE DigitsText(_)
DigitsText(ds) == IF ds = <<>> THEN <<>>
                  ELSE <<DigitChar[Head(ds) + 1]>> \o DigitsText(Tail(ds))

\* repr(float) of a short decimal: always with a fraction part
FloatText(v) == IntText(Head(v)) \o <<".">> \o DigitsText(Tail(v))

\* json.dumps escapes the quote, the backslash and control characters
EscapeChar(c) == CASE c = "\"" -> <<"\\", "\"">>
                   [] c = "\\" -> <<"\\", "\\">>
                   [] c = "\n" -> <<"\\", "n">>
                   [] c = "\t" -> <<"\\", "t">>
                   [] OTHER -> <<c>>

RECURSIVE EscapeText(_)
EscapeText(s) == IF s = <<>> THEN <<>> ELSE EscapeChar(Head(s)) \o EscapeText(Tail(s))

\* the quoting of str(data) in place of json.dumps(data)
QuotedText_repr(s) == <<"'">> \o s \o <<"'">>

QuotedText(s) == <<"\"">> \o EscapeText(s) \o <<"\"">>

RECURSIVE dumps(_), DumpItems(_), DumpElems(_)
\* json.dumps with the default separators (", " and ": ")
dumps(x) == CASE x.t = "null" -> <<"n", "u", "l", "l">>
              [] x.t = "bool" -> IF x.v[1] THEN <<"t", "r", "u", "e">>
                                 ELSE <<"f", "a", "l", "s", "e">>
              [] x.t = "str" -> QuotedText(x.v)
              [] x.t = "int" -> IntText(x.v[1])
              [] x.t = "float" -> FloatText(x.v)
              [] x.t = "dict" -> <<"{">> \o DumpItems(x.v) \o <<"}">>
              [] x.t = "list" -> <<"[">> \o DumpElems(x.v) \o <<"]">>

DumpItems(items) ==
    IF items = <<>> THEN <<>>
    ELSE QuotedText(Head(items)[1]) \o <<":", " ">> \o dumps(Head(items)[2])
         \o (IF Len(items) > 1 THEN <<",", " ">> \o DumpItems(Tail(items)) ELSE <<>>)

DumpElems(elems) ==
    IF elems = <<>> THEN <<>>
    ELSE dumps(Head(elems))
         \o (IF Len(elems) > 1 THEN <<",", " ">> \o DumpElems(Tail(elems)) ELSE <<>>)

(***************************************************************************)
(* A JSON reader: what the upstream does with a form field, and what       *)
(* httpx's Response.json() does with an upstream body                      *)
(***************************************************************************)
ParseFail == [ok |-> FALSE, val |-> None, pos |-> 0]
ParseOk(val, pos) == [ok |-> TRUE, val |-> val, pos |-> pos]

Whitespace == {" ", "\n", "\t", "\r"}
Digits == {"0", "1", "2", "3", "4", "5", "6", "7", "8", "9"}
DigitValue(c) == CHOOSE n \in 0..9 : DigitChar[n + 1] = c

RECURSIVE SkipWs(_, _)
SkipWs(s, i) == IF i <= Len(s) /\ s[i] \in Whitespace THEN SkipWs(s, i + 1) ELSE i

StartsWith(s, i, lit) == /\ i + Len(lit) - 1 <= Len(s)
                         /\ SubSeq(s, i, i + Len(lit) - 1) = lit

\* the characters of a string, from position i (after the opening quote)
RECURSIVE ParseStringBody(_, _, _)
ParseStringBody(s, i, acc) ==
    IF i > Len(s) THEN ParseFail
    ELSE IF s[i] = "\"" THEN ParseOk(PyStr(acc), i + 1)
    ELSE IF s[i] = "\\" THEN
        IF i + 1 > Len(s) THEN ParseFail
        ELSE IF s[i + 1] \in {"\"", "\\", "/"}
             THEN ParseStringBody(s, i + 2, Append(acc, s[i + 1]))
        ELSE IF s[i + 1] = "n" THEN ParseStringBody(s, i + 2, Append(acc, "\n"))
        ELSE IF s[i + 1] = "t" THEN ParseStringBody(s, i + 2, Append(acc, "\t"))
        ELSE ParseFail
    ELSE IF s[i] \in {"\n", "\t", "\r"} THEN ParseFail
    ELSE ParseStringBody(s, i + 1, Append(acc, s[i]))

\* the run of digits from position i: <<digits, next position>>
RECURSIVE DigitRun(_, _, _)
DigitRun(s, i, acc) ==
    IF i <= Len(s) /\ s[i] \in Digits THEN DigitRun(s, i + 1, Append(acc, DigitValue(s[i])))
    ELSE <<acc, i>>

RECURSIVE DigitsValue(_, _)
DigitsValue(ds, acc) == IF ds = <<>> THEN acc
                        ELSE DigitsValue(Tail(ds), (acc * 10) + Head(ds))

ParseNumber(s, i) ==
    LET neg == s[i] = "-"
        j == IF neg THEN i + 1 ELSE i
        whole == DigitRun(s, j, <<>>)
        ds == whole[1]
        k == whole[2]
        n == IF neg THEN 0 - DigitsValue(ds, 0) ELSE DigitsValue(ds, 0)
    IN  IF ds = <<>> \/ (Len(ds) > 1 /\ Head(ds) = 0) THEN ParseFail
        ELSE IF k <= Len(s) /\ s[k] = "." THEN
            LET frac == DigitRun(s, k + 1, <<>>)
            IN  IF frac[1] = <<>> THEN ParseFail
                ELSE ParseOk(PyFloat(n, frac[1]), frac[2])
        ELSE ParseOk(PyInt(n), k)

RECURSIVE ParseValue(_, _), ParseMembers(_, _, _), ParseElements(_, _, _)
ParseValue(s, i0) ==
    LET i == SkipWs(s, i0)
    IN  IF i > Len(s) THEN ParseFail
        ELSE IF StartsWith(s, i, <<"n", "u", "l", "l">>) THEN ParseOk(None, i + 4)
        ELSE IF StartsWith(s, i, <<"t", "r", "u", "e">>) THEN ParseOk(PyBool(TRUE), i + 4)
        ELSE IF StartsWith(s, i, <<"f", "a", "l", "s", "e">>) THEN ParseOk(PyBool(FALSE), i + 5)
        ELSE IF s[i] = "\"" THEN ParseStringBody(s, i + 1, <<>>)
        ELSE IF s[i] = "-" \/ s[i] \in Digits THEN ParseNumber(s, i)
        ELSE IF s[i] = "{" THEN
            LET j == SkipWs(s, i + 1)
            IN  IF j <= Len(s) /\ s[j] = "}" THEN ParseOk(PyDict(<<>>), j + 1)
                ELSE ParseMembers(s, j, <<>>)
        ELSE IF s[i] = "[" THEN
            LET j == SkipWs(s, i + 1)
            IN  IF j <= Len(s) /\ s[j] = "]" THEN ParseOk(PyList(<<>>), j + 1)
                ELSE ParseElements(s, j, <<>>)
        ELSE ParseFail

\* "key": value pairs up to the closing brace
ParseMembers(s, i0, acc) ==
    LET i == SkipWs(s, i0)
    IN  IF i > Len(s) \/ s[i] # "\"" THEN ParseFail
        ELSE LET key == ParseStringBody(s, i + 1, <<>>)
             IN  IF ~key.ok THEN ParseFail
                 ELSE LET c == SkipWs(s, key.pos)
                      IN  IF c > Len(s) \/ s[c] # ":" THEN ParseFail
                          ELSE LET val == ParseValue(s, c + 1)
                               IN  IF ~val.ok THEN ParseFail
                                   ELSE LET e == SkipWs(s, val.pos)
                                            got == Append(acc, <<key.val.v, val.val>>)
                                        IN  IF e > Len(s) THEN ParseFail
                                            ELSE IF s[e] = "}" THEN ParseOk(PyDict(got), e + 1)
                                            ELSE IF s[e] = "," THEN ParseMembers(s, e + 1, got)
                                            ELSE ParseFail

ParseElements(s, i0, acc) ==
    LET val == ParseValue(s, i0)
    IN  IF ~val.ok THEN ParseFail
        ELSE LET e == SkipWs(s, val.pos)
                 got == Append(acc, val.val)
             IN  IF e > Len(s) THEN ParseFail
                 ELSE IF s[e] = "]" THEN ParseOk(PyList(got), e + 1)
                 ELSE IF s[e] = "," THEN ParseElements(s, e + 1, got)
                 ELSE ParseFail

\* the whole text is one JSON value
loads(s) == LET r == ParseValue(s, 1)
            IN  IF r.ok /\ SkipWs(s, r.pos) = Len(s) + 1 THEN r ELSE ParseFail

(***************************************************************************)
(* Inputs: what an inbound request and the upstream may carry              *)
(***************************************************************************)
\* inbound requests that may wait, accepted by the server, for the event loop
MaxPending == 1

Text_Iv == <<"I", "v">>
Text_quoted == <<"I", "\"", "\\">>
Text_twoLines == <<"O", "\n", "v">>
Text_mail == <<"a", "@", "b">>
Text_male == <<"m", "a", "l", "e">>
Text_phone == <<"+", "3", "7", "5">>

Date_2023 == PyDate(2023, 1, 1)
Date_999 == PyDate(999, 12, 31)

\* query strings of GET /customer_list/ (lines 59-78); name= gives ""
GetCustomersArgs == [name : {None, PyStr(<<>>), PyStr(Text_Iv)},
                     email : {None, PyStr(<<>>), PyStr(Text_mail)},
                     date_from : {None, Date_2023},
                     date_to : {None, Date_999}]

\* query strings of POST /customer_create/ (lines 128-136): first_name, email and
\* number are required, the other six are Optional with default None
CustomerCreateArgs == [first_name : {PyStr(Text_quoted)},
                       last_name : {None, PyStr(Text_twoLines)},
                       patronymic : {None, PyStr(Text_Iv)},
                       email : {PyStr(Text_mail)},
                       birthday : {None, Date_2023},
                       sex : {None, PyStr(Text_male)},
                       region : {None, PyStr(Text_quoted)},
                       city : {None, PyStr(Text_Iv)},
                       number : {PyStr(Text_phone)}]

GetOrdersArgs == [customer_id : {PyInt(0), PyInt(15)}]

OrderCreateArgs == [customer_id : {PyInt(0), PyInt(15)},
                    order_number : {PyInt(999)},
                    product_name : {PyStr(Text_quoted)},
                    quantity : {PyInt(4), PyInt(-1)},
                    price : {PyFloat(0, <<9, 9>>), PyFloat(4, <<0>>)}]

OrderPaymentArgs == [order_id : {PyInt(0), PyInt(15)}]

\* upstream answers: a status line and a body
UpstreamStatuses == {200, 201, 400}
Body_created == <<"{", "\"", "s", "u", "c", "c", "e", "s", "s", "\"", ":", "t", "r", "u", "e", ",", "\"", "i", "d", "\"", ":", "5", "}">>
Body_invalid == <<"{", "\"", "s", "u", "c", "c", "e", "s", "s", "\"", ":", "f", "a", "l", "s", "e", ",", "\"", "e", "r", "r", "o", "r", "M", "s", "g", "\"", ":", "\"", "I", "n", "v", "a", "l", "i", "d", " ", "d", "a", "t", "a", "\"", "}">>
Body_html == <<"<", "h", "t", "m", "l", ">">>
UpstreamBodies == {Body_created, Body_invalid, Body_html}

(***************************************************************************)
(* State                                                                   *)
(***************************************************************************)
VARIABLES
    headers,      \* the module-level dict {'X-API-KEY': ...} (line 18)
    loop,         \* the event loop thread: "free", or "busy" running a handler
    arrived,      \* inbound requests accepted and not yet started
    pc,           \* the latest request: "idle" (none yet), "blocked" (inside the
                  \* httpx call), "responded"
    req,          \* the latest request: its handler and arguments
    out,          \* the outbound call of the latest request
    calls,        \* how many outbound calls the latest request has issued
    up,           \* what the outbound call of the latest request came back with
    resp,         \* the local response to the latest request
    probe,        \* one request and upstream answer, fixed at the start ...
    probe_resp,   \* ... the local response it got the first time it was seen ...
    probe_seen    \* ... and how often it was seen: 0, 1, or 2 for more than once

vars == <<headers, loop, arrived, pc, req, out, calls, up, resp, probe, probe_resp,
          probe_seen>>

\* os.environ.get("X_API_KEY") at import time
X_API_KEY == "secret"

NoRequest == [handler |-> "none", args |-> <<>>]
NoCall == [method |-> "none", base |-> "", path |-> "", headers |-> {}, params |-> {},
           data |-> {}]
NoAnswer == [kind |-> "none", status |-> 0, text |-> <<>>]
NoResponse == [kind |-> "none", status |-> 0, body |-> None]

BaseUrl == "https://usernzt.retailcrm.ru/api/v5"

\* a call sent without the headers= argument
OutboundHeaders_missing == {}

\* the headers= argument of every httpx call: the module-level dict itself
OutboundHeaders == headers

httpx_get(path, params) ==
    [method |-> "GET", base |-> BaseUrl, path |-> path, headers |-> OutboundHeaders,
     params |-> params, data |-> {}]

httpx_post(path, data) ==
    [method |-> "POST", base |-> BaseUrl, path |-> path, headers |-> OutboundHeaders,
     params |-> {}, data |-> data]

\* requests and answers whose local response is compared across the run
Probes ==
    { [handler |-> "get_customers",
       args |-> [name |-> PyStr(Text_Iv), email |-> None, date_from |-> None,
                 date_to |-> None],
       status |-> 200, text |-> Body_created],
      [handler |-> "order_payment", args |-> [order_id |-> PyInt(15)],
       status |-> 400, text |-> Body_invalid] }

Init ==
    /\ headers = {<<"X-API-KEY", X_API_KEY>>}
    /\ loop = "free"
    /\ arrived = 0
    /\ pc = "idle"
    /\ req = NoRequest
    /\ out = NoCall
    /\ calls = 0
    /\ up = NoAnswer
    /\ resp = NoResponse
    /\ probe \in Probes
    /\ probe_resp = NoResponse
    /\ probe_seen = 0

(***************************************************************************)
(* The handlers.  Each is an async def with no await in it: once started   *)
(* it keeps the event loop until it returns or raises, the blocking httpx  *)
(* call included.                                                          *)
(***************************************************************************)
\* an inbound request reaches the server
RequestArrives ==
    /\ arrived < MaxPending
    /\ arrived' = arrived + 1
    /\ UNCHANGED <<headers, loop, pc, req, out, calls, up, resp, probe, probe_resp,
                   probe_seen>>

\* the event loop starts the handler of a waiting request and the handler runs
\* into its httpx call
EntersCall(handler, args, call) ==
    /\ loop = "free"
    /\ arrived > 0
    /\ arrived' = arrived - 1
    /\ loop' = "busy"
    /\ pc' = "blocked"
    /\ req' = [handler |-> handler, args |-> args]
    /\ out' = call
    /\ calls' = 1
    /\ up' = NoAnswer
    /\ resp' = NoResponse
    /\ UNCHANGED <<headers, probe, probe_resp, probe_seen>>

\* what the server answers when a handler raises anything but an HTTPException
InternalServerError == [kind |-> "unhandled", status |-> 500, body |-> None]

\* the event loop starts the handler of a waiting request and the handler raises
\* before it reaches its httpx call
RaisesBeforeCall(handler, args) ==
    /\ loop = "free"
    /\ arrived > 0
    /\ arrived' = arrived - 1
    /\ loop' = "free"
    /\ pc' = "responded"
    /\ req' = [handler |-> handler, args |-> args]
    /\ out' = NoCall
    /\ calls' = 0
    /\ up' = NoAnswer
    /\ resp' = InternalServerError
    /\ UNCHANGED <<headers, probe, probe_resp, probe_seen>>

\* lines 80-89
CustomerFilters(a) ==
    (IF Truthy(a.name) THEN {<<"filter[name]", a.name>>} ELSE {})
    \cup (IF Truthy(a.email) THEN {<<"filter[email]", a.email>>} ELSE {})
    \cup (IF Truthy(a.date_from)
          THEN {<<"filter[dateFrom]", PyStr(isoformat(a.date_from))>>} ELSE {})
    \cup (IF Truthy(a.date_to)
          THEN {<<"filter[dateTo]", PyStr(isoformat(a.date_to))>>} ELSE {})

get_customers ==
    \E a \in GetCustomersArgs :
        EntersCall("get_customers", a, httpx_get("/customers", CustomerFilters(a)))

\* lines 138-152, for a birthday that is a date
CustomerData(a) ==
    PyDict(<< <<K_firstName, a.first_name>>,
              <<K_lastName, a.last_name>>,
              <<K_patronymic, a.patronymic>>,
              <<K_email, a.email>>,
              <<K_birthday, PyStr(isoformat(a.birthday))>>,
              <<K_sex, a.sex>>,
              <<K_address, PyDict(<< <<K_region, a.region>>, <<K_city, a.city>> >>)>>,
              <<K_phones, PyList(<< PyDict(<< <<K_number, a.number>> >>) >>)>> >>)

\* line 143 evaluates birthday.isoformat() whatever birthday is: None has no
\* such attribute and the handler raises AttributeError
customer_create ==
    \E a \in CustomerCreateArgs :
        \/ /\ a.birthday.t = "date"
           /\ EntersCall("customer_create", a,
                         httpx_post("/customers/create",
                                    {<<"customer", dumps(CustomerData(a))>>}))
        \/ /\ a.birthday.t # "date"
           /\ RaisesBeforeCall("customer_create", a)

get_orders ==
    \E a \in GetOrdersArgs :
        EntersCall("get_orders", a,
                   httpx_get("/orders", {<<"filter[customerId]", a.customer_id>>}))

\* lines 244-255
OrderData(a) ==
    PyDict(<< <<K_customer, PyDict(<< <<K_id, a.customer_id>> >>)>>,
              <<K_number, a.order_number>>,
              <<K_items, PyList(<< PyDict(<< <<K_productName, a.product_name>>,
                                           <<K_quantity, a.quantity>>,
                                           <<K_initialPrice, a.price>> >>) >>)>> >>)

order_create ==
    \E a \in OrderCreateArgs :
        EntersCall("order_create", a,
                   httpx_post("/orders/create", {<<"order", dumps(OrderData(a))>>}))

\* lines 295-299
PaymentData(a) ==
    PyDict(<< <<K_order, PyDict(<< <<K_id, a.order_id>> >>)>>,
              <<K_type, PyStr(K_cash)>>,
              <<K_status, PyStr(K_paid)>> >>)

order_payment ==
    \E a \in OrderPaymentArgs :
        EntersCall("order_payment", a,
                   httpx_post("/orders/payments/create",
                              {<<"payment", dumps(PaymentData(a))>>}))

(***************************************************************************)
(* The end of a handler: the httpx call comes back                         *)
(***************************************************************************)
\* the status each handler compares r.status_code with (lines 93, 158, 202, 260, 302)
ExpectedStatus(handler) ==
    IF handler \in {"get_customers", "get_orders"} THEN 200 ELSE 201

\* a route decorator without status_code=201
RouteStatus_unset(handler) == 200

\* the status_code of the route decorator (lines 125, 235, 290); 200 when not given
RouteStatus(handler) ==
    IF handler \in {"customer_create", "order_create", "order_payment"} THEN 201 ELSE 200

\* return r.json()
Returned(handler, body) == [kind |-> "returned", status |-> RouteStatus(handler), body |-> body]

\* raise HTTPException(status_code=..., detail=...): the server answers with that
\* status and the JSON object {"detail": detail}
HTTPException(status_code, detail) ==
    [kind |-> "http_exception", status |-> status_code,
     body |-> PyDict(<< <<K_detail, detail>> >>)]

\* a handler that catches the failure of r.json() and returns nothing
Relay_swallow(handler, status_code, text) ==
    LET json == loads(text)
    IN  IF status_code = ExpectedStatus(handler)
        THEN Returned(handler, IF json.ok THEN json.val ELSE None)
        ELSE HTTPException(status_code, IF json.ok THEN json.val ELSE None)

\* the last four lines of every handler; r.json() raises when the body is not JSON
Relay(handler, status_code, text) ==
    LET json == loads(text)
    IN  IF ~json.ok THEN InternalServerError
        ELSE IF status_code = ExpectedStatus(handler) THEN Returned(handler, json.val)
        ELSE HTTPException(status_code, json.val)

MatchesProbe(r, answer) ==
    /\ r.handler = probe.handler
    /\ r.args = probe.args
    /\ answer.kind = "response"
    /\ answer.status = probe.status
    /\ answer.text = probe.text

Finishes(answer, response) ==
    /\ pc' = "responded"
    /\ loop' = "free"
    /\ up' = answer
    /\ resp' = response
    /\ probe_resp' = IF MatchesProbe(req, answer) /\ probe_seen = 0
                     THEN response ELSE probe_resp
    /\ probe_seen' = IF ~MatchesProbe(req, answer) THEN probe_seen
                     ELSE IF probe_seen = 0 THEN 1 ELSE 2
    /\ UNCHANGED <<headers, arrived, req, out, calls, probe>>

\* the upstream answers and httpx.get / httpx.post returns r
httpx_returns ==
    /\ pc = "blocked"
    /\ \E status_code \in UpstreamStatuses, text \in UpstreamBodies :
           Finishes([kind |-> "response", status |-> status_code, text |-> text],
                    Relay(req.handler, status_code, text))

\* no answer (DNS, connection, timeout): httpx.get / httpx.post raises, nothing in
\* the handler catches it
httpx_raises ==
    /\ pc = "blocked"
    /\ Finishes([kind |-> "transport_error", status |-> 0, text |-> <<>>],
                InternalServerError)

StartHandler ==
    \/ get_customers
    \/ customer_create
    \/ get_orders
    \/ order_create
    \/ order_payment

Next ==
    \/ RequestArrives
    \/ StartHandler
    \/ httpx_returns
    \/ httpx_raises

Spec == Init /\ [][Next]_vars

TypeOK ==
    /\ loop \in {"free", "busy"}
    /\ arrived \in 0..MaxPending
    /\ pc \in {"idle", "blocked", "responded"}
    /\ calls \in 0..1
    /\ (loop = "busy") = (pc = "blocked")

(***************************************************************************)
(* What the specification documents, written down independently of the     *)
(* handlers above                                                          *)
(***************************************************************************)
ReadHandlers == {"get_customers", "get_orders"}
WriteHandlers == {"customer_create", "order_create", "order_payment"}

DocumentedPath(handler) ==
    CASE handler = "get_customers" -> "/customers"
      [] handler = "customer_create" -> "/customers/create"
      [] handler = "get_orders" -> "/orders"
      [] handler = "order_create" -> "/orders/create"
      [] handler = "order_payment" -> "/orders/payments/create"

DocumentedSuccess(handler) == IF handler \in ReadHandlers THEN 200 ELSE 201

DocumentedField(handler) ==
    CASE handler = "customer_create" -> "customer"
      [] handler = "order_create" -> "order"
      [] handler = "order_payment" -> "payment"

\* the ISO form of the dates of the model, YYYY-MM-DD
IsoText(d) ==
    CASE d = Date_2023 -> PyStr(<<"2", "0", "2", "3", "-", "0", "1", "-", "0", "1">>)
      [] d = Date_999 -> PyStr(<<"0", "9", "9", "9", "-", "1", "2", "-", "3", "1">>)

\* the JSON value of the upstream bodies of the model
UpstreamJson(text) ==
    CASE text = Body_created ->
             PyDict(<< <<<<"s", "u", "c", "c", "e", "s", "s">>, PyBool(TRUE)>>, <<K_id, PyInt(5)>> >>)
      [] text = Body_invalid ->
             PyDict(<< <<<<"s", "u", "c", "c", "e", "s", "s">>, PyBool(FALSE)>>,
                       <<<<"e", "r", "r", "o", "r", "M", "s", "g">>, PyStr(<<"I", "n", "v", "a", "l", "i", "d", " ", "d", "a", "t", "a">>)>> >>)

IsJson(text) == text \in {Body_created, Body_invalid}

DocumentedPayload(r) ==
    CASE r.handler = "customer_create" ->
             PyDict(<< <<K_firstName, r.args.first_name>>,
                       <<K_lastName, r.args.last_name>>,
                       <<K_patronymic, r.args.patronymic>>,
                       <<K_email, r.args.email>>,
                       <<K_birthday, IF r.args.birthday = None THEN None
                                     ELSE IsoText(r.args.birthday)>>,
                       <<K_sex, r.args.sex>>,
                       <<K_address, PyDict(<< <<K_region, r.args.region>>,
                                              <<K_city, r.args.city>> >>)>>,
                       <<K_phones, PyList(<< PyDict(<< <<K_number, r.args.number>> >>) >>)>> >>)
      [] r.handler = "order_create" ->
             PyDict(<< <<K_customer, PyDict(<< <<K_id, r.args.customer_id>> >>)>>,
                       <<K_number, r.args.order_number>>,
                       <<K_items, PyList(<< PyDict(<< <<K_productName, r.args.product_name>>,
                                                    <<K_quantity, r.args.quantity>>,
                                                    <<K_initialPrice, r.args.price>> >>) >>)>> >>)
      [] r.handler = "order_payment" ->
             PyDict(<< <<K_order, PyDict(<< <<K_id, r.args.order_id>> >>)>>,
                       <<K_type, PyStr(K_cash)>>,
                       <<K_status, PyStr(K_paid)>> >>)

\* the form field of a write call holds JSON text that reads back as the payload
FieldReadsAs(call, handler, payload) ==
    /\ call.method = "POST"
    /\ call.params = {}
    /\ Cardinality(call.data) = 1
    /\ \A f \in call.data :
           /\ f[1] = DocumentedField(handler)
           /\ loads(f[2]).ok
           /\ loads(f[2]).val = payload

Started == pc \in {"blocked", "responded"}
Answered == pc = "responded" /\ up.kind = "response"

(***************************************************************************)
(* Claims                                                                  *)
(***************************************************************************)
\* C1: every request that has been responded to issued exactly one outbound call,
\* and that call went to the documented upstream path of its handler.
C1_ExactlyOneCall ==
    pc = "responded" => /\ calls = 1
                        /\ out.path = DocumentedPath(req.handler)

\* C2: when the upstream answers a handler's success status with a JSON body, the
\* local response is a plain return whose body is that JSON value and whose
\* status is 200 for the read handlers and 201 for the write handlers.
C2_SuccessRelayed ==
    (Answered /\ up.status = DocumentedSuccess(req.handler) /\ IsJson(up.text))
        => /\ resp.kind = "returned"
           /\ resp.status = DocumentedSuccess(req.handler)
           /\ resp.body = UpstreamJson(up.text)

C2_Witness ==
    /\ Answered
    /\ req.handler = "order_create"
    /\ up.status = 201
    /\ up.text = Body_created
    /\ resp.status = 201

\* C3: when the upstream answers any other status with a JSON body, the local
\* response has the upstream status and the upstream body itself, with nothing
\* wrapped around it.
C3_ErrorRelayedUnwrapped ==
    (Answered /\ up.status # DocumentedSuccess(req.handler) /\ IsJson(up.text))
        => /\ resp.status = up.status
           /\ resp.body = UpstreamJson(up.text)

C5_OptionalsAreOptional ==
    (Started /\ req.handler = "customer_create")
        => /\ calls = 1
           /\ out.path = "/customers/create"
           /\ FieldReadsAs(out, "customer_create", DocumentedPayload(req))

\* C6: no handler changes the X-API-KEY header read at start, every outbound call
\* carries it, and a request that is served again with the same parameters and the
\* same upstream answer gets the same local response, whatever was served or was
\* waiting in between.
C6_Stateless ==
    /\ headers = {<<"X-API-KEY", X_API_KEY>>}
    /\ calls = 1 => out.headers = {<<"X-API-KEY", X_API_KEY>>}
    /\ (pc = "responded" /\ MatchesProbe(req, up) /\ probe_seen > 0)
           => resp = probe_resp

C6_Witness ==
    /\ pc = "responded"
    /\ MatchesProbe(req, up)
    /\ probe_seen = 2
    /\ arrived > 0
    /\ out.headers = {<<"X-API-KEY", X_API_KEY>>}

\* C7: while a handler waits on its outbound call it has given up control: a
\* request that has arrived in the meantime can be started.
C7_YieldsWhileWaiting ==
    (pc = "blocked" /\ arrived > 0) => ENABLED StartHandler

\* C8 as stated: the outbound query of get_customers holds a filter for precisely
\* the parameters present in the inbound request, an empty string included.
FiltersOf(a, dropped) ==
    (IF a.name \notin dropped THEN {<<"filter[name]", a.name>>} ELSE {})
    \cup (IF a.email \notin dropped THEN {<<"filter[email]", a.email>>} ELSE {})
    \cup (IF a.date_from \notin dropped THEN {<<"filter[dateFrom]", IsoText(a.date_from)>>}
          ELSE {})
    \cup (IF a.date_to \notin dropped THEN {<<"filter[dateTo]", IsoText(a.date_to)>>}
          ELSE {})

\* the values that stand for "not supplied"
Absent == {None}
AbsentOrEmpty == {None, PyStr(<<>>)}

C8_ForwardsPresentFilters ==
    (Started /\ req.handler = "get_customers")
        => /\ calls = 1
           /\ out.data = {}
           /\ out.params = FiltersOf(req.args, Absent)

\* C8 amended: the outbound query of get_customers holds a filter for precisely
\* the parameters that are present and not the empty string, each with the
\* caller's value (dates in ISO form), and nothing else.
C8_ForwardsNonEmptyFilters ==
    (Started /\ req.handler = "get_customers")
        => /\ calls = 1
           /\ out.data = {}
           /\ out.params = FiltersOf(req.args, AbsentOrEmpty)

C8_Witness ==
    /\ pc = "blocked"
    /\ req.handler = "get_customers"
    /\ req.args.name = PyStr(<<>>)
    /\ req.args.email = PyStr(Text_mail)
    /\ req.args.date_to = Date_999
    /\ out.params = {<<"filter[email]", PyStr(Text_mail)>>,
                     <<"filter[dateTo]", IsoText(Date_999)>>}

\* C9: when the upstream answers any status other than the handler's success code,
\* the caller gets an error response, never one with a 2xx status, and the handler
\* has made just its one outbound call.
C9_FailureNever2xx ==
    (Answered /\ up.status # DocumentedSuccess(req.handler))
        => /\ resp.kind # "returned"
           /\ resp.status \notin 200..299
           /\ calls = 1

\* C10: when the outbound call brings no usable answer (it raises, or the body is
\* not JSON), the request ends as an unhandled error after that single call, with
\* no success status, and the program is left as it was at start: the event loop
\* free, the headers unchanged.
C10_NoAnswerIsUnhandled ==
    (pc = "responded"
     /\ (up.kind = "transport_error" \/ (up.kind = "response" /\ ~IsJson(up.text))))
        => /\ resp.kind = "unhandled"
           /\ resp.status = 500
           /\ calls = 1
           /\ loop = "free"
           /\ headers = {<<"X-API-KEY", X_API_KEY>>}

C10_Witness ==
    /\ pc = "responded"
    /\ up.kind = "response"
    /\ up.status = 201
    /\ up.text = Body_html
    /\ req.handler = "order_payment"
    /\ resp.kind = "unhandled"

====
